---- MODULE Spec2Model ----
(***************************************************************************)
(* Model of the MJML rendering server (src/server.js): one HTTP request at *)
(* a time travels through the framework's lifecycle                        *)
(*   routing -> body parsing -> schema validation -> preHandler hook ->    *)
(*   route handler -> response                                             *)
(* The compiler (mjml2html) is an external pure function of the markup: a  *)
(* markup value carries the result the compiler gives for it.              *)
(***************************************************************************)
EXTENDS Integers, Sequences, FiniteSets, TLC

(* ------------------------------ bounds -------------------------------- *)

\* longest explicit list of batch items enumerated (a tail of identical
\* items is appended to reach the 100-item limit)
MaxBatch == 2
\* longest diagnostics list the compiler returns
MaxDiags == 2
\* most character runs in a /render markup
MaxRuns == 2

(* ------------------------- program constants -------------------------- *)

\* 1024 * 1024: the handlers' size limit, compared with mjml.length
MaxMjmlLength == 1048576
\* the gate's item limit: body.items.length > 100
MaxItems == 100
\* Fastify({ logger }) sets no bodyLimit: the framework's default applies
bodyLimit == 1048576

(* ------------------------------ strings ------------------------------- *)

\* A markup's text is a sequence of runs [cls, n]: n characters of class
\* cls.  The classes differ in UTF-16 units, UTF-8 bytes and JSON bytes.
Classes == {"ascii", "quote", "latin", "astral"}

\* String.prototype.length counts UTF-16 code units
Units(cls) == IF cls = "astral" THEN 2 ELSE 1

\* bytes of the character in UTF-8
Utf8Bytes(cls) ==
    CASE cls = "ascii" -> 1
      [] cls = "quote" -> 1
      [] cls = "latin" -> 2
      [] cls = "astral" -> 4

\* bytes of the character inside a JSON string literal (a quote is escaped)
JsonBytes(cls) == IF cls = "quote" THEN 2 ELSE Utf8Bytes(cls)

\* the measure named by w of one character of class cls
Weight(cls, w) ==
    CASE w = "units" -> Units(cls)
      [] w = "utf8" -> Utf8Bytes(cls)
      [] w = "json" -> JsonBytes(cls)

RECURSIVE SumRuns(_, _)
SumRuns(runs, w) ==
    IF runs = <<>> THEN 0
    ELSE Head(runs).n * Weight(Head(runs).cls, w) + SumRuns(Tail(runs), w)

\* mjml.length
StrLength(text) == SumRuns(text, "units")
\* Buffer.byteLength(mjml, 'utf8')
ByteLength(text) == SumRuns(text, "utf8")
\* bytes of JSON.stringify(mjml)
JsonStringBytes(text) == 2 + SumRuns(text, "json")

\* sequences over S of length 0..n
SeqUpTo(S, n) == UNION {[1..k -> S] : k \in 0..n}

(* --------------------------- the compiler ----------------------------- *)

\* a diagnostic as mjml2html reports it
Diagnostics ==
    { [line |-> 1, message |-> "Element mj-invalid doesn't exist",
       tagName |-> "mj-invalid", formattedMessage |-> "Line 1 (mj-invalid)"],
      [line |-> 5, message |-> "Attribute foo is illegal",
       tagName |-> "mj-text", formattedMessage |-> "Line 5 (mj-text)"] }

DiagLists == SeqUpTo(Diagnostics, MaxDiags)

\* What mjml2html(mjml, options) does with one markup: it throws an Error
\* with a message, or returns { html, errors }.  hasHtml = FALSE stands for
\* an html that is undefined; html = "" is the empty string.
CompileThrows ==
    [throws |-> TRUE,
     message |-> "Malformed MJML. Check that your structure is correct and enclosed in <mjml> tags.",
     hasHtml |-> FALSE, html |-> "", errors |-> <<>>]

CompileReturns(hasHtml, html, errors) ==
    [throws |-> FALSE, message |-> "", hasHtml |-> hasHtml, html |-> html,
     errors |-> errors]

CompileResults ==
    {CompileThrows}
    \cup {CompileReturns(TRUE, "<!doctype html>", e) : e \in DiagLists}
    \cup {CompileReturns(FALSE, "", e) : e \in DiagLists}
    \cup {CompileReturns(TRUE, "", <<>>)}

\* a markup string: its text and the compiler's result for it
Markup(text, result) == [text |-> text, result |-> result]

\* mjml2html(mjml, { validationLevel: 'soft', filePath: '.' })
mjml2html(mjml) == mjml.result

\* errors.slice(0, 5)-style truncation applied to the reply: the first entry only
MapErrorsTruncated(errors) ==
    [i \in 1..1 |->
        [line |-> errors[i].line, message |-> errors[i].message,
         tagName |-> errors[i].tagName]]

\* errors.map((e) => ({ line, message, tagName }))
MapErrors(errors) ==
    [i \in 1..Len(errors) |->
        [line |-> errors[i].line, message |-> errors[i].message,
         tagName |-> errors[i].tagName]]

\* !html || typeof html !== 'string'
NoHtml(r) == ~r.hasHtml \/ r.html = ""

(* ------------------------------ item ids ------------------------------ *)

\* A JSON value used as an id: undefined (absent), a string (a sequence of
\* characters) or a number.
NoId == [t |-> "undefined", s |-> <<>>, n |-> 0]
StrId(s) == [t |-> "string", s |-> s, n |-> 0]
NumId(n) == [t |-> "number", s |-> <<>>, n |-> n]

DigitChars == <<"0", "1", "2", "3", "4", "5", "6", "7", "8", "9">>
IsDigit(c) == \E d \in 1..Len(DigitChars) : DigitChars[d] = c
DigitValue(c) == (CHOOSE d \in 1..Len(DigitChars) : DigitChars[d] = c) - 1

\* "" + n for a non-negative integer n
RECURSIVE NumToStr(_)
NumToStr(n) ==
    IF n < 10 THEN <<DigitChars[n + 1]>>
    ELSE Append(NumToStr(n \div 10), DigitChars[(n % 10) + 1])

\* +s for a string of digits
RECURSIVE StrToNum(_)
StrToNum(s) ==
    IF s = <<>> THEN 0
    ELSE 10 * StrToNum(SubSeq(s, 1, Len(s) - 1)) + DigitValue(s[Len(s)])

\* data && data == +data, for strings over letters and digits
IsNumericStr(s) == s # <<>> /\ \A i \in 1..Len(s) : IsDigit(s[i])

\* bytes of JSON.stringify(id)
IdBytes(id) ==
    CASE id.t = "string" -> 2 + Len(id.s)
      [] id.t = "number" -> Len(NumToStr(id.n))
      [] OTHER -> 0

(* ----------------------- schema validation (Ajv) ---------------------- *)

\* The framework compiles the route schemas with its default validator
\* options, which coerce types: a { type } keyword that does not match
\* converts the value when it can and writes the converted value back into
\* the body being validated.  Each operator returns [valid, data].

\* { type: 'string' } applied to an id
TypeString(v) ==
    CASE v.t = "string" -> [valid |-> TRUE, data |-> v]
      [] v.t = "number" -> [valid |-> TRUE, data |-> StrId(NumToStr(v.n))]
      [] OTHER -> [valid |-> FALSE, data |-> v]

\* { type: 'number' } applied to an id
TypeNumber(v) ==
    CASE v.t = "number" -> [valid |-> TRUE, data |-> v]
      [] v.t = "string" /\ IsNumericStr(v.s) ->
            [valid |-> TRUE, data |-> NumId(StrToNum(v.s))]
      [] OTHER -> [valid |-> FALSE, data |-> v]

\* id: { oneOf: [{ type: 'string' }, { type: 'number' }] }: both branches
\* run, the second on what the first left; exactly one must hold
IdSchema(v) ==
    LET a == TypeString(v)
        b == TypeNumber(a.data)
    IN [valid |-> (a.valid /\ ~b.valid) \/ (~a.valid /\ b.valid), data |-> b.data]

\* first branch of the item schema: required id and mjml
ItemBranchWithId(item) ==
    IF item.id.t = "undefined" \/ ~item.hasMjml
    THEN [valid |-> FALSE, data |-> item]
    ELSE LET r == IdSchema(item.id)
         IN [valid |-> r.valid, data |-> [item EXCEPT !.id = r.data]]

\* second branch of the item schema: required mjml
ItemBranchMjml(item) == [valid |-> item.hasMjml, data |-> item]

\* items: { oneOf: [ { id, mjml }, { mjml } ] }
ItemSchema(item) ==
    LET a == ItemBranchWithId(item)
        b == ItemBranchMjml(a.data)
    IN [valid |-> (a.valid /\ ~b.valid) \/ (~a.valid /\ b.valid), data |-> b.data]

\* batchRenderSchema.body
batchRenderSchema(b) ==
    IF ~b.hasItems \/ b.itemsType # "array" \/ Len(b.items) < 1
    THEN [valid |-> FALSE, data |-> b]
    ELSE [valid |-> \A i \in 1..Len(b.items) : ItemSchema(b.items[i]).valid,
          data |-> [b EXCEPT !.items =
                        [i \in 1..Len(b.items) |-> ItemSchema(b.items[i]).data]]]

\* renderSchema.body: mjml is required; { type: 'string' } accepts a string,
\* converts a number to its decimal string, and rejects an object
renderSchema(b) ==
    IF ~b.hasMjml THEN [valid |-> FALSE, data |-> b]
    ELSE CASE b.mjmlType = "string" -> [valid |-> TRUE, data |-> b]
           [] b.mjmlType = "number" ->
                [valid |-> TRUE, data |-> [b EXCEPT !.mjmlType = "string"]]
           [] OTHER -> [valid |-> FALSE, data |-> b]

(* ------------------------------ handlers ------------------------------ *)

\* reply.code(status).send(body), or a returned body with status 200
Reply(status, body) == [status |-> status, body |-> body]

\* the url '/render-batch': the path with no query string (a url is the
\* pair of its path and its query string)
BatchUrl == <<"/render-batch", "">>

\* preHandler hook: TRUE when the gate answers the request itself
\* (body.items && Array.isArray(body.items) && body.items.length > 100)
GateRejects(url, method, b) ==
    /\ url = BatchUrl
    /\ method = "POST"
    /\ b.hasItems
    /\ b.itemsType = "array"
    /\ Len(b.items) > MaxItems

TooManyItems ==
    Reply(413, [error |-> "Too many items (max 100 at once)", code |-> "TOO_MANY_ITEMS"])

\* the catch block of both route handlers
InternalError(env, message) ==
    IF env = "development"
    THEN Reply(500, [error |-> "Internal server error", code |-> "INTERNAL_ERROR",
                     message |-> message])
    ELSE Reply(500, [error |-> "Internal server error", code |-> "INTERNAL_ERROR"])

\* mjml.length > 1024 * 1024
TooLarge(mjml) == StrLength(mjml.text) > MaxMjmlLength

\* POST /render handler: the reply and the number of compiler calls
RenderHandler(b, env) ==
    IF ~b.hasMjml \/ StrLength(b.mjml.text) = 0 \/ b.mjmlType # "string"
    THEN [reply |-> Reply(400, [error |-> "MJML content is required and must be a string",
                                code |-> "INVALID_INPUT"]),
          calls |-> 0]
    ELSE IF TooLarge(b.mjml)
    THEN [reply |-> Reply(413, [error |-> "MJML content is too large (max 1MB)",
                                code |-> "CONTENT_TOO_LARGE"]),
          calls |-> 0]
    ELSE LET r == mjml2html(b.mjml)
         IN [calls |-> 1,
             reply |->
                IF r.throws THEN InternalError(env, r.message)
                ELSE IF Len(r.errors) > 0
                THEN Reply(400, [error |-> "MJML compilation failed",
                                 code |-> "COMPILATION_ERROR",
                                 errors |-> MapErrors(r.errors)])
                ELSE IF NoHtml(r)
                THEN Reply(500, [error |-> "Failed to generate HTML",
                                 code |-> "NO_OUTPUT"])
                ELSE Reply(200, [html |-> r.html])]

\* item.id !== undefined ? item.id : index  (and item.id ?? index)
ResolveId(item, index) == IF item.id.t # "undefined" THEN item.id ELSE NumId(index)

\* the per-item catch block
ProcessingError(item, index, message) ==
    [id |-> ResolveId(item, index), success |-> FALSE, error |-> message,
     code |-> "PROCESSING_ERROR"]

\* the callback of items.map: the result of the item at zero-based index
ItemResult(item, index) ==
    LET id == ResolveId(item, index)
    IN IF ~item.hasMjml
       THEN ProcessingError(item, index,
                "Cannot read properties of undefined (reading 'length')")
       ELSE IF TooLarge(item.mjml)
       THEN [id |-> id, success |-> FALSE,
             error |-> "MJML content is too large (max 1MB)",
             code |-> "CONTENT_TOO_LARGE"]
       ELSE LET r == mjml2html(item.mjml)
            IN IF r.throws THEN ProcessingError(item, index, r.message)
               ELSE IF Len(r.errors) > 0
               THEN [id |-> id, success |-> FALSE,
                     error |-> "MJML compilation failed",
                     code |-> "COMPILATION_ERROR",
                     errors |-> MapErrors(r.errors)]
               ELSE IF r.hasHtml
               THEN [id |-> id, success |-> TRUE, html |-> r.html]
               ELSE [id |-> id, success |-> TRUE]

\* whether the callback reaches mjml2html for the item
ItemCompiles(item) == item.hasMjml /\ ~TooLarge(item.mjml)

\* results.filter((r) => r.success).length
successCount(results) == Cardinality({i \in 1..Len(results) : results[i].success})

\* counting only the results that carry diagnostics
failureCountOfErrors(results) ==
    Cardinality({i \in 1..Len(results) : "errors" \in DOMAIN results[i]})

\* results.length - successCount
failureCount(results) == Len(results) - successCount(results)

Summary(results) ==
    [total |-> Len(results), success |-> successCount(results),
     failed |-> failureCount(results)]

\* the handler without the per-item try/catch: a throwing item reaches the
\* outer catch and the whole batch is answered 500
RenderBatchHandlerNoCatch(b, env) ==
    IF ~b.hasItems \/ b.itemsType # "array" \/ Len(b.items) = 0
    THEN [reply |-> Reply(400, [error |-> "items array is required and must contain at least 1 item",
                                code |-> "INVALID_INPUT"]),
          calls |-> 0]
    ELSE IF \E i \in 1..Len(b.items) :
                ~b.items[i].hasMjml
                \/ (~TooLarge(b.items[i].mjml) /\ mjml2html(b.items[i].mjml).throws)
    THEN [reply |-> InternalError(env, CompileThrows.message),
          calls |-> 1]
    ELSE LET results == [i \in 1..Len(b.items) |-> ItemResult(b.items[i], i - 1)]
         IN [reply |-> Reply(200, [summary |-> Summary(results), results |-> results]),
             calls |-> Cardinality({i \in 1..Len(b.items) : ItemCompiles(b.items[i])})]

\* POST /render-batch handler: the reply and the number of compiler calls
RenderBatchHandler(b, env) ==
    IF ~b.hasItems \/ b.itemsType # "array" \/ Len(b.items) = 0
    THEN [reply |-> Reply(400, [error |-> "items array is required and must contain at least 1 item",
                                code |-> "INVALID_INPUT"]),
          calls |-> 0]
    ELSE LET results == [i \in 1..Len(b.items) |-> ItemResult(b.items[i], i - 1)]
         IN [reply |-> Reply(200, [summary |-> Summary(results), results |-> results]),
             calls |-> Cardinality({i \in 1..Len(b.items) : ItemCompiles(b.items[i])})]

\* setNotFoundHandler
NotFound(url) ==
    Reply(404, [error |-> "Endpoint not found", code |-> "NOT_FOUND", path |-> url])

\* an error the framework raises: statusCode 0, code "" and message ""
\* stand for an absent field (all three are falsy)
FrameworkError(statusCode, code, message) ==
    [statusCode |-> statusCode, code |-> code, message |-> message]

\* a || b on strings and numbers
OrElse(a, falsy, b) == IF a = falsy THEN b ELSE a

\* setErrorHandler
ErrorHandler(error) ==
    IF error.statusCode = 400 /\ error.code = "FST_ERR_VALIDATION"
    THEN Reply(400, [error |-> OrElse(error.message, "", "Validation error"),
                     code |-> "INVALID_INPUT"])
    ELSE IF error.statusCode = 413
    THEN Reply(413, [error |-> OrElse(error.message, "", "Payload too large"),
                     code |-> "CONTENT_TOO_LARGE"])
    ELSE Reply(OrElse(error.statusCode, 0, 500),
               [error |-> OrElse(error.message, "", "Internal server error"),
                code |-> OrElse(error.code, "", "INTERNAL_ERROR"),
                statusCode |-> OrElse(error.statusCode, 0, 500)])

(* ------------------------------ requests ------------------------------ *)

\* a batch item as submitted: { id?, mjml? }
Item(id, hasMjml, mjml) == [id |-> id, hasMjml |-> hasMjml, mjml |-> mjml]

\* a JSON object body: { mjml?, items? }
Body(hasMjml, mjml, hasItems, items) ==
    [hasMjml |-> hasMjml, mjml |-> mjml, mjmlType |-> "string",
     hasItems |-> hasItems, items |-> items, itemsType |-> "array"]

\* { mjml: n } for a number n: mjml holds the decimal string of n
NumberMjmlBody(mjml) == [Body(TRUE, mjml, FALSE, <<>>) EXCEPT !.mjmlType = "number"]

\* bytes of one item in the JSON text of the body
ItemBytes(item) ==
    2 + (IF item.id.t # "undefined" THEN 5 + IdBytes(item.id) ELSE 0)
      + (IF item.id.t # "undefined" /\ item.hasMjml THEN 1 ELSE 0)
      + (IF item.hasMjml THEN 7 + JsonStringBytes(item.mjml.text) ELSE 0)

\* bytes of items lo..hi
RECURSIVE RangeBytes(_, _, _)
RangeBytes(items, lo, hi) ==
    IF lo > hi THEN 0
    ELSE IF lo = hi THEN ItemBytes(items[lo])
    ELSE LET mid == (lo + hi) \div 2
         IN RangeBytes(items, lo, mid) + RangeBytes(items, mid + 1, hi)

\* bytes of the items and of the commas between them
ItemsBytes(items) ==
    IF items = <<>> THEN 0
    ELSE RangeBytes(items, 1, Len(items)) + (Len(items) - 1)

\* Content-Length of the request: the bytes of the JSON text of the body
BodyBytes(b) ==
    2 + (IF b.hasMjml THEN 7 + JsonStringBytes(b.mjml.text) ELSE 0)
      + (IF b.hasMjml /\ b.hasItems THEN 1 ELSE 0)
      + (IF b.hasItems THEN 10 + ItemsBytes(b.items) ELSE 0)

SmallText == <<[cls |-> "ascii", n |-> 20]>>

\* runs that put a markup on either side of the limits in each measure
Runs ==
    { [cls |-> "ascii", n |-> 20],
      [cls |-> "ascii", n |-> MaxMjmlLength],
      [cls |-> "latin", n |-> (MaxMjmlLength \div 2) + 1],
      [cls |-> "quote", n |-> (MaxMjmlLength \div 2) + 1],
      [cls |-> "astral", n |-> 1] }

Texts == SeqUpTo(Runs, MaxRuns)

Html == CompileReturns(TRUE, "<!doctype html>", <<>>)
OneDiag == CHOOSE d \in Diagnostics : d.line = 1

NoMjml == Markup(<<>>, CompileThrows)
EmptyBody == Body(FALSE, NoMjml, FALSE, <<>>)

\* { mjml: {} }
ObjectMjmlBody == [Body(TRUE, NoMjml, FALSE, <<>>) EXCEPT !.mjmlType = "object"]

\* { items: 'abc' } and { items: {} }
NonArrayItemsBodies ==
    {[Body(FALSE, NoMjml, TRUE, <<>>) EXCEPT !.itemsType = t] : t \in {"string", "object"}}

\* the decimal string of the number 123
NumberText == <<[cls |-> "ascii", n |-> 3]>>

RenderBodies ==
    {EmptyBody, ObjectMjmlBody}
    \cup {Body(TRUE, Markup(t, r), FALSE, <<>>) : t \in Texts, r \in CompileResults}
    \cup {NumberMjmlBody(Markup(NumberText, r)) : r \in CompileResults}

ItemIds == {NoId, StrId(<<"1">>), StrId(<<"a">>), NumId(7)}

\* the compiler results tried on batch items
ItemResults ==
    { Html, CompileReturns(TRUE, "<!doctype html>", <<OneDiag>>),
      CompileReturns(FALSE, "", <<>>), CompileThrows }

BatchItems ==
    {Item(id, TRUE, Markup(SmallText, Html)) : id \in ItemIds}
    \cup {Item(id, TRUE, Markup(SmallText, r)) :
            id \in {NoId, NumId(7)}, r \in ItemResults}
    \cup {Item(NoId, TRUE, Markup(<<>>, r)) : r \in {Html, CompileThrows}}
    \cup {Item(NoId, FALSE, NoMjml), Item(StrId(<<"a">>), FALSE, NoMjml)}
    \cup {Item(NoId, TRUE, Markup(<<[cls |-> "ascii", n |-> MaxMjmlLength + 1]>>, Html))}

\* the item that fills a batch up to the item limit
Filler == Item(NoId, TRUE, Markup(SmallText, Html))

Pad(items, n) == items \o [i \in 1..n |-> Filler]

BatchBodies ==
    {EmptyBody} \cup NonArrayItemsBodies
    \cup {Body(FALSE, NoMjml, TRUE, Pad(items, n)) :
            items \in SeqUpTo(BatchItems, MaxBatch), n \in {0, MaxItems - 1}}

Request(method, path, query, media, b) ==
    [method |-> method, path |-> path, query |-> query, media |-> media, body |-> b]

\* media "json": a JSON body; "xml": a content type without a parser;
\* "empty": content-type application/json with an empty body
Requests ==
    {Request("POST", "/render", "", "json", b) : b \in RenderBodies}
    \cup {Request("POST", "/render-batch", q, "json", b) :
            q \in {"", "?x=1"}, b \in BatchBodies}
    \cup {Request("POST", p, q, m, Body(TRUE, Markup(SmallText, Html), FALSE, <<>>)) :
            p \in {"/render", "/render-batch"}, q \in {"", "?x=1"},
            m \in {"json", "xml", "empty"}}
    \cup {Request(m, p, q, "json", EmptyBody) :
            m \in {"GET", "POST"},
            p \in {"/health", "/info", "/render", "/render-batch", "/nonexistent"},
            q \in {"", "?x=1"}}

\* request.url: the path with its query string
Url(r) == <<r.path, r.query>>

\* the route the router finds for a method and a path (the query string
\* takes no part)
RouteOf(method, path) ==
    CASE method = "GET" /\ path = "/health" -> "health"
      [] method = "GET" /\ path = "/info" -> "info"
      [] method = "POST" /\ path = "/render" -> "render"
      [] method = "POST" /\ path = "/render-batch" -> "render-batch"
      [] OTHER -> "none"

(* ------------------------------- state -------------------------------- *)

VARIABLES
    NODE_ENV,   \* process.env.NODE_ENV
    phase,      \* where the request is in the framework's lifecycle
    request,    \* the request as the client sent it
    body,       \* request.body, as validation left it
    reply,      \* the response sent
    compiles    \* calls of mjml2html made for the request

vars == <<NODE_ENV, phase, request, body, reply, compiles>>

NoReply == Reply(0, [none |-> TRUE])

\* the value of request while no request is being handled
IdleRequest == Request("GET", "/health", "", "json", EmptyBody)

Init ==
    /\ NODE_ENV \in {"development", "production", ""}
    /\ phase = "idle"
    /\ request = IdleRequest
    /\ body = EmptyBody
    /\ reply = NoReply
    /\ compiles = 0

Send(r) ==
    /\ reply' = r
    /\ phase' = "sent"

\* a request arrives
Receive ==
    /\ phase = "idle"
    /\ \E r \in Requests :
        /\ request' = r
        /\ body' = r.body
    /\ phase' = "routing"
    /\ reply' = NoReply
    /\ compiles' = 0
    /\ UNCHANGED NODE_ENV

\* the router: a route, or the not-found handler
Route ==
    /\ phase = "routing"
    /\ IF RouteOf(request.method, request.path) = "none"
       THEN Send(NotFound(Url(request)))
       ELSE phase' = "parsing" /\ UNCHANGED reply
    /\ UNCHANGED <<NODE_ENV, request, body, compiles>>

\* the content-type parser's error for the request, statusCode 0 if none
ParseError(r) ==
    IF r.method # "POST" THEN FrameworkError(0, "", "")
    ELSE IF r.media = "xml"
    THEN FrameworkError(415, "FST_ERR_CTP_INVALID_MEDIA_TYPE",
                        "Unsupported Media Type: application/xml")
    ELSE IF r.media = "empty"
    THEN FrameworkError(400, "FST_ERR_CTP_EMPTY_JSON_BODY",
                        "Body cannot be empty when content-type is set to 'application/json'")
    ELSE IF BodyBytes(r.body) > bodyLimit
    THEN FrameworkError(413, "FST_ERR_CTP_BODY_TOO_LARGE", "Request body is too large")
    ELSE FrameworkError(0, "", "")

\* body parsing: an error goes to the error handler
ParseBody ==
    /\ phase = "parsing"
    /\ IF ParseError(request).statusCode # 0
       THEN Send(ErrorHandler(ParseError(request)))
       ELSE phase' = "validation" /\ UNCHANGED reply
    /\ UNCHANGED <<NODE_ENV, request, body, compiles>>

\* the route's schema applied to the body
SchemaOf(route, b) ==
    CASE route = "render" -> renderSchema(b)
      [] route = "render-batch" -> batchRenderSchema(b)
      [] OTHER -> [valid |-> TRUE, data |-> b]

\* schema validation: a violation goes to the error handler, and the body
\* keeps what the validator wrote into it
Validate ==
    /\ phase = "validation"
    /\ LET v == SchemaOf(RouteOf(request.method, request.path), body)
       IN IF v.valid
          THEN phase' = "preHandler" /\ body' = v.data /\ UNCHANGED reply
          ELSE /\ Send(ErrorHandler(FrameworkError(400, "FST_ERR_VALIDATION",
                                                   "body does not match the schema")))
               /\ UNCHANGED body
    /\ UNCHANGED <<NODE_ENV, request, compiles>>

\* the preHandler hook
PreHandler ==
    /\ phase = "preHandler"
    /\ IF GateRejects(Url(request), request.method, body)
       THEN Send(TooManyItems)
       ELSE phase' = "handler" /\ UNCHANGED reply
    /\ UNCHANGED <<NODE_ENV, request, body, compiles>>

\* POST /render
Render ==
    /\ phase = "handler"
    /\ RouteOf(request.method, request.path) = "render"
    /\ Send(RenderHandler(body, NODE_ENV).reply)
    /\ compiles' = RenderHandler(body, NODE_ENV).calls
    /\ UNCHANGED <<NODE_ENV, request, body>>

\* POST /render-batch
RenderBatch ==
    /\ phase = "handler"
    /\ RouteOf(request.method, request.path) = "render-batch"
    /\ Send(RenderBatchHandler(body, NODE_ENV).reply)
    /\ compiles' = RenderBatchHandler(body, NODE_ENV).calls
    /\ UNCHANGED <<NODE_ENV, request, body>>

\* GET /health
Health ==
    /\ phase = "handler"
    /\ RouteOf(request.method, request.path) = "health"
    /\ Send(Reply(200, [status |-> "ok", timestamp |-> "now"]))
    /\ UNCHANGED <<NODE_ENV, request, body, compiles>>

\* GET /info
Info ==
    /\ phase = "handler"
    /\ RouteOf(request.method, request.path) = "info"
    /\ Send(Reply(200, [name |-> "MJML Rendering Server", version |-> "1.0.0",
                        mjmlVersion |-> "4.14.1", nodeVersion |-> "process.version",
                        uptime |-> "process.uptime()", timestamp |-> "now",
                        endpoints |-> {"health", "render", "renderBatch", "info"}]))
    /\ UNCHANGED <<NODE_ENV, request, body, compiles>>

\* the exchange is over: the server waits for the next request
Finish ==
    /\ phase = "sent"
    /\ phase' = "idle"
    /\ request' = IdleRequest
    /\ body' = EmptyBody
    /\ reply' = NoReply
    /\ compiles' = 0
    /\ UNCHANGED NODE_ENV

Next ==
    \/ Receive
    \/ Route
    \/ ParseBody
    \/ Validate
    \/ PreHandler
    \/ Render
    \/ RenderBatch
    \/ Health
    \/ Info
    \/ Finish

Spec == Init /\ [][Next]_vars

(* ------------------------------- claims ------------------------------- *)

\* the response to the current request has been sent
Sent == phase = "sent"

OnRoute(route) == RouteOf(request.method, request.path) = route

\* the request got past body parsing
Parsed == ParseError(request).statusCode = 0

\* the body as submitted satisfies the route's schema
PassesSchema == SchemaOf(RouteOf(request.method, request.path), request.body).valid

\* a batch request the service accepts: parsed, valid, not stopped by the gate
AcceptedBatch ==
    /\ OnRoute("render-batch")
    /\ Parsed
    /\ PassesSchema
    /\ ~GateRejects(Url(request), request.method, request.body)

\* the item fails: oversized, the compiler throws, or it reports diagnostics
ItemFails(item) ==
    /\ item.hasMjml
    /\ \/ TooLarge(item.mjml)
       \/ mjml2html(item.mjml).throws
       \/ Len(mjml2html(item.mjml).errors) > 0

\* the item compiles cleanly: html and no diagnostics
ItemClean(item) ==
    /\ item.hasMjml
    /\ ~TooLarge(item.mjml)
    /\ ~mjml2html(item.mjml).throws
    /\ mjml2html(item.mjml).errors = <<>>
    /\ ~NoHtml(mjml2html(item.mjml))

\* item k of the submitted batch fails and every other item compiles cleanly
OnlyFails(k) ==
    /\ ItemFails(request.body.items[k])
    /\ \A j \in 1..Len(request.body.items) : j # k => ItemClean(request.body.items[j])

SubmittedId(i) ==
    IF request.body.items[i].id.t # "undefined"
    THEN request.body.items[i].id
    ELSE NumId(i - 1)

\* C2: for every item i of an accepted batch, results[i].id equals the id
\* submitted for the item, type preserved (a string stays a string, a number
\* stays a number), or the item's zero-based position when it was submitted
\* without id; results are in input order.
IdentityPreserved ==
    (Sent /\ AcceptedBatch /\ reply.status = 200) =>
        /\ Len(reply.body.results) = Len(request.body.items)
        /\ \A i \in 1..Len(request.body.items) :
                reply.body.results[i].id = SubmittedId(i)

\* C3: every POST /render-batch body with 1 to 100 items, each with a string
\* mjml and no id or a string or number id, is answered 200 with a body of
\* summary and results.
WellFormedBatchAnswered ==
    ( /\ Sent
      /\ OnRoute("render-batch")
      /\ Parsed
      /\ request.body.hasItems
      /\ Len(request.body.items) \in 1..MaxItems
      /\ \A i \in 1..Len(request.body.items) : request.body.items[i].hasMjml ) =>
        /\ reply.status = 200
        /\ {"summary", "results"} \subseteq DOMAIN reply.body

\* C4: every request on the batch route whose items array has more than 100
\* entries is answered 413 TOO_MANY_ITEMS and the compiler is never invoked
\* for it, whatever the form of the URL.
TooManyItemsRejected ==
    ( /\ Sent
      /\ OnRoute("render-batch")
      /\ Parsed
      /\ PassesSchema
      /\ Len(request.body.items) > MaxItems ) =>
        /\ reply.status = 413
        /\ reply.body.code = "TOO_MANY_ITEMS"
        /\ compiles = 0

\* the markup of a /render request passes the handler's input checks and the
\* compiler returns diagnostics for it
RenderDiagnostics ==
    /\ OnRoute("render")
    /\ Parsed
    /\ PassesSchema
    /\ StrLength(request.body.mjml.text) > 0
    /\ ~TooLarge(request.body.mjml)
    /\ ~mjml2html(request.body.mjml).throws
    /\ Len(mjml2html(request.body.mjml).errors) > 0

\* C5: when the compiler returns a non-empty diagnostics list for a markup
\* /render's input checks accept, /render answers 400 COMPILATION_ERROR with
\* one errors entry per diagnostic, in order, and no html field, whether or
\* not the compiler also returned html.
DiagnosticsReported ==
    (Sent /\ RenderDiagnostics) =>
        LET diagnostics == mjml2html(request.body.mjml).errors
        IN /\ reply.status = 400
           /\ reply.body.code = "COMPILATION_ERROR"
           /\ "html" \notin DOMAIN reply.body
           /\ Len(reply.body.errors) = Len(diagnostics)
           /\ \A i \in 1..Len(diagnostics) :
                /\ reply.body.errors[i].line = diagnostics[i].line
                /\ reply.body.errors[i].message = diagnostics[i].message
                /\ reply.body.errors[i].tagName = diagnostics[i].tagName

\* /render answered a markup for which the compiler returned html together
\* with two different diagnostics
DiagnosticsReportedWitness ==
    /\ Sent
    /\ RenderDiagnostics
    /\ mjml2html(request.body.mjml).hasHtml
    /\ Len(mjml2html(request.body.mjml).errors) = 2
    /\ mjml2html(request.body.mjml).errors[1] # mjml2html(request.body.mjml).errors[2]
    /\ reply.status = 400
    /\ Len(reply.body.errors) = 2

\* the code of the reply, "" when it has none
ReplyCode == IF "code" \in DOMAIN reply.body THEN reply.body.code ELSE ""

\* C6: a /render markup of more than 1 MiB of UTF-8 bytes is answered 413
\* CONTENT_TOO_LARGE, and a non-empty markup of at most 1 MiB of bytes is
\* never answered CONTENT_TOO_LARGE.
SizeLimitInBytes ==
    ( /\ Sent
      /\ OnRoute("render")
      /\ request.media = "json"
      /\ request.body.hasMjml
      /\ request.body.mjmlType = "string" ) =>
        /\ ByteLength(request.body.mjml.text) > MaxMjmlLength =>
                (reply.status = 413 /\ ReplyCode = "CONTENT_TOO_LARGE")
        /\ ( /\ StrLength(request.body.mjml.text) > 0
             /\ ByteLength(request.body.mjml.text) <= MaxMjmlLength ) =>
                ReplyCode # "CONTENT_TOO_LARGE"

\* C7: in every 200 response of /render-batch, summary.total is the number
\* of results and of submitted items, summary.success the number of results
\* with success true, summary.failed the number with success false, and
\* success + failed = total.
SummaryCounts ==
    (Sent /\ OnRoute("render-batch") /\ reply.status = 200) =>
        LET results == reply.body.results
            summary == reply.body.summary
        IN /\ summary.total = Len(results)
           /\ summary.total = Len(request.body.items)
           /\ summary.success = Cardinality({i \in 1..Len(results) : results[i].success})
           /\ summary.failed = Cardinality({i \in 1..Len(results) : ~results[i].success})
           /\ summary.success + summary.failed = summary.total

\* a full batch was answered with successes and with a failure that carries
\* no diagnostics
SummaryCountsWitness ==
    /\ Sent
    /\ OnRoute("render-batch")
    /\ reply.status = 200
    /\ reply.body.summary.total = MaxItems
    /\ reply.body.summary.failed = 1
    /\ reply.body.results[1].code = "PROCESSING_ERROR"

\* the codes of the error table and the status of each
ErrorCodes ==
    {"INVALID_INPUT", "CONTENT_TOO_LARGE", "TOO_MANY_ITEMS", "COMPILATION_ERROR",
     "NO_OUTPUT", "PROCESSING_ERROR", "INTERNAL_ERROR", "NOT_FOUND"}

StatusOfCode(code) ==
    CASE code \in {"INVALID_INPUT", "COMPILATION_ERROR"} -> 400
      [] code \in {"CONTENT_TOO_LARGE", "TOO_MANY_ITEMS"} -> 413
      [] code \in {"NO_OUTPUT", "INTERNAL_ERROR"} -> 500
      [] code = "NOT_FOUND" -> 404
      [] code = "PROCESSING_ERROR" -> 200

\* C8: every error response carries a code of the fixed set, with the status
\* the table gives the code; no framework error code reaches the client.
ErrorCodesNormalized ==
    (Sent /\ reply.status >= 400) =>
        /\ ReplyCode \in ErrorCodes
        /\ reply.status = StatusOfCode(ReplyCode)

\* the messages of the exceptions thrown inside the handlers
ExceptionMessages ==
    {CompileThrows.message, "Cannot read properties of undefined (reading 'length')"}

\* C9: outside development mode no response body contains the raw message
\* of an internal exception, in the top-level envelope or in a batch result.
NoRawMessageOutsideDevelopment ==
    (Sent /\ NODE_ENV # "development") =>
        /\ "message" \in DOMAIN reply.body => reply.body.message \notin ExceptionMessages
        /\ "error" \in DOMAIN reply.body => reply.body.error \notin ExceptionMessages
        /\ "results" \in DOMAIN reply.body =>
                \A i \in 1..Len(reply.body.results) :
                    "error" \in DOMAIN reply.body.results[i] =>
                        reply.body.results[i].error \notin ExceptionMessages

\* what POST /render answers for the markup of a batch item
RenderOf(item) == RenderHandler(Body(TRUE, item.mjml, FALSE, <<>>), NODE_ENV).reply

\* C10: a batch item's result has success true exactly when /render would
\* answer 200 for its markup, otherwise it carries the failure code /render
\* would return (INVALID_INPUT, CONTENT_TOO_LARGE, COMPILATION_ERROR or
\* NO_OUTPUT); a success result carries a non-empty html string.
BatchItemMatchesRender ==
    (Sent /\ AcceptedBatch /\ reply.status = 200) =>
        \A i \in 1..Len(body.items) :
            LET result == reply.body.results[i]
                single == RenderOf(body.items[i])
            IN /\ result.success <=> single.status = 200
               /\ ( /\ single.status # 200
                    /\ single.body.code \in {"INVALID_INPUT", "CONTENT_TOO_LARGE",
                                             "COMPILATION_ERROR", "NO_OUTPUT"} ) =>
                        ("code" \in DOMAIN result /\ result.code = single.body.code)
               /\ result.success => ("html" \in DOMAIN result /\ result.html # "")

\* C11: on POST /render-batch the gate's item-count check runs before
\* schema validation: a body whose items array has more than 100 entries is
\* answered 413 TOO_MANY_ITEMS even when it also violates the schema, and a
\* body the gate cannot read (items absent or not an array) passes unchanged
\* to schema validation and is answered 400 INVALID_INPUT.
GateBeforeValidation ==
    ( /\ Sent
      /\ request.method = "POST"
      /\ Url(request) = BatchUrl
      /\ Parsed ) =>
        /\ ( /\ request.body.hasItems
             /\ request.body.itemsType = "array"
             /\ Len(request.body.items) > MaxItems ) =>
                (reply.status = 413 /\ ReplyCode = "TOO_MANY_ITEMS")
        /\ (~request.body.hasItems \/ request.body.itemsType # "array") =>
                (reply.status = 400 /\ ReplyCode = "INVALID_INPUT" /\ body = request.body)

\* the markup of the /render request is missing, not a string, or empty
MarkupRejected ==
    \/ ~request.body.hasMjml
    \/ request.body.mjmlType # "string"
    \/ StrLength(request.body.mjml.text) = 0

\* C12: on POST /render the compiler is invoked at most once, and not at all
\* when the response is INVALID_INPUT or CONTENT_TOO_LARGE; the checks run
\* in the order missing/wrong type, size, compile, and the first that fails
\* determines the response.
ValidationPrecedesCompilation ==
    (Sent /\ OnRoute("render") /\ request.media = "json") =>
        /\ compiles <= 1
        /\ ReplyCode \in {"INVALID_INPUT", "CONTENT_TOO_LARGE"} => compiles = 0
        /\ MarkupRejected =>
                (reply.status = 400 /\ ReplyCode = "INVALID_INPUT" /\ compiles = 0)
        /\ (~MarkupRejected /\ TooLarge(request.body.mjml)) =>
                (reply.status = 413 /\ ReplyCode = "CONTENT_TOO_LARGE" /\ compiles = 0)
        /\ compiles = 1 => (~MarkupRejected /\ ~TooLarge(request.body.mjml))

====
